---- MODULE Spec2Model ----
(***************************************************************************)
(* NAV ingestion and indicator engine of src/scraper.py.                   *)
(*                                                                         *)
(* Number representation.  Python floats are modelled as exact fixed-point *)
(* integers:                                                               *)
(*   nav                  in NAV units (the unit is irrelevant: every      *)
(*                        indicator below except the moving average is a   *)
(*                        ratio of navs); the moving average is in         *)
(*                        1/10000 of a NAV unit (round(.., 4));            *)
(*   pct_*, rsi_14        in hundredths (round(.., 2)): 3.0 is 300,        *)
(*                        100.0 is 10000;                                  *)
(*   momentum score       in 1/10000 (round(.., 4)).                       *)
(* round() is modelled as round-half-even on the exact quotient.           *)
(* An optional value (Python None) is the empty tuple, a present value v   *)
(* is the 1-tuple <<v>>.                                                   *)
(* Dates are ISO-8601 strings in the program; they are modelled as day     *)
(* numbers, whose order is the lexicographic order of the strings.         *)
(***************************************************************************)
EXTENDS Integers, Sequences, FiniteSets, TLC

\* ------------------------------------------------------------------ bounds
MaxBatch == 2     \* longest observation batch one fetch returns

\* ------------------------------------------------------- optional values
None == <<>>
Some(v) == <<v>>
IsNone(x) == x = <<>>
Val(x) == x[1]
\* Python truthiness of an optional number: None and 0 are falsy.
Truthy(x) == x # None /\ Val(x) # 0

Min2(a, b) == IF a <= b THEN a ELSE b
Max2(a, b) == IF a >= b THEN a ELSE b
Abs(a) == IF a < 0 THEN -a ELSE a

RECURSIVE SumSeq(_)
SumSeq(s) == IF s = <<>> THEN 0 ELSE Head(s) + SumSeq(Tail(s))

\* round(n / d) to an integer, ties to even; d > 0.
RoundDiv(n, d) ==
    LET q == n \div d
        r == n % d
    IN  IF 2 * r < d THEN q
        ELSE IF 2 * r > d THEN q + 1
        ELSE IF q % 2 = 0 THEN q ELSE q + 1

\* ---------------------------------------------------------------------
\* Exact arithmetic on naturals of any size (the Wilder averages of
\* calculate_rsi have denominators 14^k): little-endian limbs in base
\* 10000, zero is <<>>, no leading zero limb.
\* ---------------------------------------------------------------------
BigBase == 100 * 100

RECURSIVE BigOfNat(_)
BigOfNat(n) == IF n = 0 THEN <<>> ELSE <<n % BigBase>> \o BigOfNat(n \div BigBase)

RECURSIVE BigAddC(_, _, _)
BigAddC(a, b, c) ==
    IF a = <<>> /\ b = <<>> THEN BigOfNat(c)
    ELSE LET x == IF a = <<>> THEN 0 ELSE Head(a)
             y == IF b = <<>> THEN 0 ELSE Head(b)
             s == x + y + c
         IN  <<s % BigBase>> \o
             BigAddC(IF a = <<>> THEN <<>> ELSE Tail(a),
                     IF b = <<>> THEN <<>> ELSE Tail(b), s \div BigBase)

BigAdd(a, b) == BigAddC(a, b, 0)

RECURSIVE BigMulC(_, _, _)
BigMulC(a, m, c) ==
    IF a = <<>> THEN BigOfNat(c)
    ELSE LET p == Head(a) * m + c
         IN  <<p % BigBase>> \o BigMulC(Tail(a), m, p \div BigBase)

\* a * m for a natural m < 200000
BigMul(a, m) == IF m = 0 THEN <<>> ELSE BigMulC(a, m, 0)

RECURSIVE BigLessFrom(_, _, _)
BigLessFrom(a, b, i) ==
    IF i = 0 THEN FALSE
    ELSE IF a[i] # b[i] THEN a[i] < b[i]
    ELSE BigLessFrom(a, b, i - 1)

BigLess(a, b) ==
    IF Len(a) # Len(b) THEN Len(a) < Len(b) ELSE BigLessFrom(a, b, Len(a))

BigLeq(a, b) == ~BigLess(b, a)

\* the largest q in lo..hi with q * den <= num
RECURSIVE BigQuot(_, _, _, _)
BigQuot(num, den, lo, hi) ==
    IF lo = hi THEN lo
    ELSE LET mid == (lo + hi + 1) \div 2
         IN  IF BigLeq(BigMul(den, mid), num)
             THEN BigQuot(num, den, mid, hi)
             ELSE BigQuot(num, den, lo, mid - 1)

\* round(num / den), ties to even, for 0 <= num <= den * top
BigRoundDiv(num, den, top) ==
    LET q == BigQuot(num, den, 0, top)
        twice == BigMul(num, 2)
        mark == BigMul(den, 2 * q + 1)
    IN  IF BigLess(twice, mark) THEN q
        ELSE IF BigLess(mark, twice) THEN q + 1
        ELSE IF q % 2 = 0 THEN q ELSE q + 1

\* ---------------------------------------------------------------------
\* Python list sorts.  list.sort / sorted are stable, also with
\* reverse=True (equal keys keep their input order).
\* ---------------------------------------------------------------------
\* the number of elements of the sorted list `acc` that stay in front of a
\* new element with key k: all up to the last one whose key does not come
\* after k (scanned from the end, j = Len(acc) at first)
RECURSIVE KeepBefore(_, _, _, _)
KeepBefore(acc, k, desc, j) ==
    IF j = 0 THEN 0
    ELSE IF (IF desc THEN acc[j].k >= k ELSE acc[j].k <= k) THEN j
    ELSE KeepBefore(acc, k, desc, j - 1)

InsertKeyed(acc, x, desc) ==
    LET n == KeepBefore(acc, x.k, desc, Len(acc))
    IN  IF n = Len(acc) THEN Append(acc, x)
        ELSE SubSeq(acc, 1, n) \o <<x>> \o SubSeq(acc, n + 1, Len(acc))

RECURSIVE SortKeyedFrom(_, _, _, _)
SortKeyedFrom(xs, i, acc, desc) ==
    IF i > Len(xs) THEN acc
    ELSE SortKeyedFrom(xs, i + 1, InsertKeyed(acc, xs[i], desc), desc)

\* xs: a sequence of [k |-> integer key, v |-> item]; the items in sorted order
StableSort(xs, desc) ==
    LET s == SortKeyedFrom(xs, 1, <<>>, desc)
    IN  [i \in 1..Len(s) |-> s[i].v]

\* ---------------------------------------------------------------------
\* Indicator calculations
\* ---------------------------------------------------------------------
Gains(prices) ==
    [i \in 1..(Len(prices) - 1) |-> Max2(prices[i + 1] - prices[i], 0)]

Losses(prices) ==
    [i \in 1..(Len(prices) - 1) |-> Max2(-(prices[i + 1] - prices[i]), 0)]

\* The smoothing loop of calculate_rsi over xs[j..]: the average is num/den,
\* and avg' = (avg * (period - 1) + xs[j]) / period.  Returns the last
\* numerator; the denominator period^k is the same for gains and losses.
RECURSIVE WilderNum(_, _, _, _, _)
WilderNum(xs, j, num, den, period) ==
    IF j > Len(xs) THEN num
    ELSE WilderNum(xs, j + 1,
                   BigAdd(BigMul(num, period - 1), BigMul(den, xs[j])),
                   BigMul(den, period), period)

\* calculate_rsi with the length test off by one (<= instead of <)
CalculateRsiOffByOne(prices, period) ==
    IF Len(prices) <= period + 1 THEN None
    ELSE LET gains == Gains(prices)
             losses == Losses(prices)
             avg_gain == WilderNum(gains, period + 1,
                                   BigOfNat(SumSeq(SubSeq(gains, 1, period))),
                                   BigOfNat(period), period)
             avg_loss == WilderNum(losses, period + 1,
                                   BigOfNat(SumSeq(SubSeq(losses, 1, period))),
                                   BigOfNat(period), period)
         IN  IF avg_loss = <<>> THEN Some(10000)
             ELSE Some(BigRoundDiv(BigMul(avg_gain, 10000),
                                   BigAdd(avg_gain, avg_loss), 10000))

\* RSI in hundredths, or None
calculate_rsi(prices, period) ==
    IF Len(prices) < period + 1 THEN None
    ELSE LET gains == Gains(prices)
             losses == Losses(prices)
             avg_gain == WilderNum(gains, period + 1,
                                   BigOfNat(SumSeq(SubSeq(gains, 1, period))),
                                   BigOfNat(period), period)
             avg_loss == WilderNum(losses, period + 1,
                                   BigOfNat(SumSeq(SubSeq(losses, 1, period))),
                                   BigOfNat(period), period)
         IN  IF avg_loss = <<>> THEN Some(10000)
             \* 100 - 100 / (1 + g/l) = 100 * g / (g + l)
             ELSE Some(BigRoundDiv(BigMul(avg_gain, 10000),
                                   BigAdd(avg_gain, avg_loss), 10000))

\* simple moving average in 1/10000 NAV units, or None
calculate_ma(prices, period) ==
    IF Len(prices) < period THEN None
    ELSE Some(RoundDiv(
            SumSeq(SubSeq(prices, Len(prices) - period + 1, Len(prices))) * 10000,
            period))

\* percentage change in hundredths of a percent, or None
calculate_pct_change(prices, days) ==
    IF Len(prices) < days + 1 THEN None
    ELSE LET old == prices[Len(prices) - days]
             new == prices[Len(prices)]
         IN  IF old = 0 THEN None
             ELSE Some(RoundDiv((new - old) * 10000, old))

\* The outcome of a call: it raises exc, or returns value.
Raise(e) == [exc |-> e, value |-> None]
Return(v) == [exc |-> "", value |-> v]

\* The 20 trailing returns (prices[i] - prices[i-1]) / prices[i-1] as exact
\* fractions <<numerator, denominator>>.  The division raises
\* ZeroDivisionError when a denominator is 0.  The standard deviation of
\* the returns is kept as this list of returns: its square root is not
\* evaluated.
calculate_volatility(prices, period) ==
    IF Len(prices) < period + 1 THEN Return(None)
    ELSE LET n == Len(prices)
             returns == [j \in 1..period |->
                            <<prices[n - period + j] - prices[n - period + j - 1],
                              prices[n - period + j - 1]>>]
         IN  IF \E j \in 1..period : returns[j][2] = 0
             THEN Raise("ZeroDivisionError")
             ELSE Return(Some(returns))

rsi_signal(rsi) ==
    IF rsi = None THEN "N/A"
    ELSE IF Val(rsi) >= 7000 THEN "OVERBOUGHT"
    ELSE IF Val(rsi) <= 3000 THEN "OVERSOLD"
    ELSE IF Val(rsi) >= 5500 THEN "BULLISH"
    ELSE IF Val(rsi) <= 4500 THEN "BEARISH"
    ELSE "NEUTRAL"

\* price in NAV units, the averages in 1/10000 NAV units
trend_signal(price, ma20, ma50) ==
    IF ma20 = None \/ ma50 = None THEN "N/A"
    ELSE IF price * 10000 > Val(ma20) /\ Val(ma20) > Val(ma50) THEN "UPTREND"
    ELSE IF price * 10000 < Val(ma20) /\ Val(ma20) < Val(ma50) THEN "DOWNTREND"
    ELSE "SIDEWAYS"

\* The outcome of compute_indicators: returns None, returns Some(snapshot),
\* or raises what calculate_volatility raises.
compute_indicators(fund_code, nav_history) ==
    IF Len(nav_history) < 5 THEN Return(None)
    ELSE LET sorted_nav == StableSort(
                 [i \in 1..Len(nav_history) |->
                     [k |-> nav_history[i].date, v |-> nav_history[i]]], FALSE)
             prices == [i \in 1..Len(sorted_nav) |-> sorted_nav[i].nav]
             current_price == prices[Len(prices)]
             rsi == calculate_rsi(prices, 14)
             ma20 == calculate_ma(prices, 20)
             ma50 == calculate_ma(prices, 50)
             vol == calculate_volatility(prices, 20)
         IN  IF vol.exc # "" THEN Raise(vol.exc)
             ELSE Return(Some(
                 [fund_code |-> fund_code,
                  date |-> sorted_nav[Len(sorted_nav)].date,
                  nav |-> current_price,
                  rsi_14 |-> rsi,
                  rsi_signal |-> rsi_signal(rsi),
                  ma5 |-> calculate_ma(prices, 5),
                  ma20 |-> ma20,
                  ma50 |-> ma50,
                  trend |-> trend_signal(current_price, ma20, ma50),
                  pct_1d |-> calculate_pct_change(prices, 1),
                  pct_1w |-> calculate_pct_change(prices, 5),
                  pct_1m |-> calculate_pct_change(prices, 21),
                  pct_3m |-> calculate_pct_change(prices, 63),
                  pct_6m |-> calculate_pct_change(prices, 126),
                  pct_1y |-> calculate_pct_change(prices, 252),
                  volatility_20d |-> vol.value,
                  data_points |-> Len(prices)]))

\* ---------------------------------------------------------------------
\* The fund universe and the inputs of a run
\* ---------------------------------------------------------------------
\* the first three funds of the program's list of 30
FUNDS ==
    << [name |-> "Public Growth Fund", code |-> "PGF"],
       [name |-> "Public Equity Fund", code |-> "PEF"],
       [name |-> "Public SmallCap Fund", code |-> "PSCF"] >>

Codes == {FUNDS[i].code : i \in 1..Len(FUNDS)}

\* what the provider can hand back for one fund: a nav of 0 or a positive
\* nav for the last stored date, a positive nav for the day after
ProviderRecords ==
    { [date |-> 22, nav |-> 0], [date |-> 22, nav |-> 103], [date |-> 23, nav |-> 103] }
Batches == UNION {[1..n -> ProviderRecords] : n \in 0..MaxBatch}

\* the provider call fails (import error, transport error, bad response)
\* or yields records
Responses ==
    {[kind |-> "error", records |-> <<>>]} \cup
    {[kind |-> "data", records |-> b] : b \in Batches}

ConstSeries(first, last, v) ==
    [i \in 1..(last - first + 1) |-> [date |-> first + i - 1, nav |-> v]]

\* the stored histories a run can start from: none, 4 observations,
\* 22 observations
InitSeries ==
    { <<>>, ConstSeries(19, 22, 100), ConstSeries(1, 22, 100) }

\* 14 falling observations; 22 observations ending 2 % down; 22
\* observations whose first value is 0 and whose second is 101
AnalyticsSeries ==
    { [i \in 1..14 |-> [date |-> 8 + i, nav |-> 114 - i]],
      ConstSeries(1, 21, 100) \o <<[date |-> 22, nav |-> 98]>>,
      <<[date |-> 1, nav |-> 0], [date |-> 2, nav |-> 101]>> \o ConstSeries(3, 22, 100) }

\* ---------------------------------------------------------------------
\* fetch_nav_from_morningstar: the whole body is inside try/except
\* Exception, which returns [].
\* ---------------------------------------------------------------------
\* the same without the except clause
FetchNavUncaught(fund, resp) ==
    IF resp.kind = "error" THEN Raise("ProviderError")
    ELSE Return([i \in 1..Len(resp.records) |->
                    [date |-> resp.records[i].date, nav |-> resp.records[i].nav]])

fetch_nav_from_morningstar(fund, resp) ==
    IF resp.kind = "error" THEN Return(<<>>)
    ELSE Return([i \in 1..Len(resp.records) |->
                    [date |-> resp.records[i].date, nav |-> resp.records[i].nav]])

\* ---------------------------------------------------------------------
\* The merge of run_daily_pipeline.  A Python dict is a list of
\* <<key, value>> pairs in insertion order.
\* ---------------------------------------------------------------------
\* existing[key] += value
DictSetAdd(items, key, value) ==
    IF \E i \in 1..Len(items) : items[i][1] = key
    THEN [i \in 1..Len(items) |->
             IF items[i][1] = key THEN <<key, items[i][2] + value>> ELSE items[i]]
    ELSE Append(items, <<key, value>>)

\* existing.setdefault(key, value)
DictSetKeepFirst(items, key, value) ==
    IF \E i \in 1..Len(items) : items[i][1] = key
    THEN items
    ELSE Append(items, <<key, value>>)

\* existing[key] = value
DictSet(items, key, value) ==
    IF \E i \in 1..Len(items) : items[i][1] = key
    THEN [i \in 1..Len(items) |->
             IF items[i][1] = key THEN <<key, value>> ELSE items[i]]
    ELSE Append(items, <<key, value>>)

RECURSIVE DictUpdate(_, _, _)
DictUpdate(items, records, i) ==
    IF i > Len(records) THEN items
    ELSE DictUpdate(DictSet(items, records[i].date, records[i].nav), records, i + 1)

\* tuple order of (date, nav)
PairLeq(a, b) == a[1] < b[1] \/ (a[1] = b[1] /\ a[2] <= b[2])

RECURSIVE PairsBefore(_, _, _)
PairsBefore(acc, x, j) ==
    IF j = 0 THEN 0
    ELSE IF PairLeq(acc[j], x) THEN j
    ELSE PairsBefore(acc, x, j - 1)

RECURSIVE SortedItemsFrom(_, _, _)
SortedItemsFrom(items, i, acc) ==
    IF i > Len(items) THEN acc
    ELSE LET n == PairsBefore(acc, items[i], Len(acc))
         IN  SortedItemsFrom(items, i + 1,
                 IF n = Len(acc) THEN Append(acc, items[i])
                 ELSE SubSeq(acc, 1, n) \o <<items[i]>> \o SubSeq(acc, n + 1, Len(acc)))

\* existing.items() without the sort
SortedItemsInsertionOrder(items) == items

\* sorted(existing.items())
SortedItems(items) == SortedItemsFrom(items, 1, <<>>)

\* the series rebuilt from the fetched records alone
MergedSeriesFetchedOnly(series, nav_data) ==
    LET ordered == SortedItems(DictUpdate(<<>>, nav_data, 1))
    IN  [i \in 1..Len(ordered) |-> [date |-> ordered[i][1], nav |-> ordered[i][2]]]

\* the new series of a fund: lines 357-364
MergedSeries(series, nav_data) ==
    LET existing == DictUpdate(DictUpdate(<<>>, series, 1), nav_data, 1)
        ordered == SortedItems(existing)
    IN  [i \in 1..Len(ordered) |-> [date |-> ordered[i][1], nav |-> ordered[i][2]]]

\* `if nav_data:` and the assignment to all_nav_history[code]
MergeHistory(history, code, nav_data) ==
    IF nav_data = <<>> THEN history
    ELSE [history EXCEPT ![code] = MergedSeries(history[code], nav_data)]

\* ---------------------------------------------------------------------
\* Cross-sectional analytics.  A dict keyed by fund code is a function on
\* the set of its keys; a later assignment to a key replaces the earlier.
\* ---------------------------------------------------------------------
HasPct1m(f) == f.pct_1m # None

LastIndexOf(list, code) ==
    CHOOSE i \in 1..Len(list) :
        /\ list[i].fund_code = code
        /\ \A j \in (i + 1)..Len(list) : list[j].fund_code # code

\* sorted(returns_1m)[(len(returns_1m) - 1) // 2]
MedianReturnLower(returns_1m) ==
    LET ordered == StableSort(
            [i \in 1..Len(returns_1m) |-> [k |-> returns_1m[i], v |-> returns_1m[i]]],
            FALSE)
    IN  ordered[((Len(returns_1m) - 1) \div 2) + 1]

\* sorted(returns_1m)[len(returns_1m) // 2], Python indices from 0
MedianReturn(returns_1m) ==
    LET ordered == StableSort(
            [i \in 1..Len(returns_1m) |-> [k |-> returns_1m[i], v |-> returns_1m[i]]],
            FALSE)
    IN  ordered[(Len(returns_1m) \div 2) + 1]

\* one entry of flow_proxy; diff in hundredths of a percent.  The note is
\* the sign prefix and the diff it prints with one decimal.
FlowEntry(diff) ==
    [signal |-> IF diff > 150 THEN "INFLOW"
                ELSE IF diff < -150 THEN "OUTFLOW" ELSE "NEUTRAL",
     strength |-> IF diff > 150 \/ diff < -150
                  THEN Min2(Abs(diff) \div 50, 5) ELSE 1,
     vs_category |-> diff,
     note |-> <<IF diff > 0 THEN "+" ELSE "", diff>>]

compute_flow_proxy(indicators_list) ==
    LET valid == SelectSeq(indicators_list, HasPct1m)
        returns_1m == [i \in 1..Len(valid) |-> Val(valid[i].pct_1m)]
        median_return == MedianReturn(returns_1m)
    IN  IF valid = <<>> THEN <<>>
        ELSE [code \in {valid[i].fund_code : i \in 1..Len(valid)} |->
                 FlowEntry(Val(valid[LastIndexOf(valid, code)].pct_1m) - median_return)]

\* composite momentum score in 1/10000: 0.4 * pct_1w + 0.4 * pct_1m +
\* 0.2 * 20 * (rsi_14 - 50) / 50, each term only when its input is truthy
MomentumScore(fund) ==
      (IF Truthy(fund.pct_1w) THEN 40 * Val(fund.pct_1w) ELSE 0)
    + (IF Truthy(fund.pct_1m) THEN 40 * Val(fund.pct_1m) ELSE 0)
    + (IF Truthy(fund.rsi_14) THEN 8 * (Val(fund.rsi_14) - 5000) ELSE 0)

\* sorted(scoreable, key=score)[::-1]
SortScoreableReversed(scoreable) ==
    LET up == StableSort([i \in 1..Len(scoreable) |->
                             [k |-> scoreable[i].score, v |-> scoreable[i]]], FALSE)
    IN  [i \in 1..Len(up) |-> up[Len(up) + 1 - i]]

\* scoreable.sort(key=score, reverse=True)
SortScoreable(scoreable) ==
    StableSort([i \in 1..Len(scoreable) |->
                   [k |-> scoreable[i].score, v |-> scoreable[i]]], TRUE)

\* the loop skipping the funds without a 1-month change
ScoreableWithPct1m(indicators_list) ==
    LET valid == SelectSeq(indicators_list, HasPct1m)
    IN  [i \in 1..Len(valid) |->
            [fund_code |-> valid[i].fund_code, score |-> MomentumScore(valid[i])]]

\* the loop that fills `scoreable`: every snapshot gets a score
Scoreable(indicators_list) ==
    [i \in 1..Len(indicators_list) |->
        [fund_code |-> indicators_list[i].fund_code,
         score |-> MomentumScore(indicators_list[i])]]

rank_funds(indicators_list) ==
    LET ordered == SortScoreable(Scoreable(indicators_list))
    IN  [code \in {ordered[i].fund_code : i \in 1..Len(ordered)} |->
            LET i == LastIndexOf(ordered, code)
            IN  [rank |-> i, score |-> ordered[i].score]]

\* ---------------------------------------------------------------------
\* Dashboard assembly (Step 4)
\* ---------------------------------------------------------------------
DashboardFund(ind, flow, ranks) ==
    LET code == ind.fund_code
    IN  [code |-> code,
         name |-> ind.fund_name,
         nav |-> ind.nav,
         date |-> ind.date,
         pct_1d |-> ind.pct_1d,
         pct_1w |-> ind.pct_1w,
         pct_1m |-> ind.pct_1m,
         pct_3m |-> ind.pct_3m,
         pct_1y |-> ind.pct_1y,
         rsi_14 |-> ind.rsi_14,
         rsi_signal |-> ind.rsi_signal,
         ma5 |-> ind.ma5,
         ma20 |-> ind.ma20,
         ma50 |-> ind.ma50,
         trend |-> ind.trend,
         volatility |-> ind.volatility_20d,
         flow_signal |-> IF code \in DOMAIN flow THEN flow[code].signal ELSE "N/A",
         flow_vs_category |-> IF code \in DOMAIN flow
                              THEN Some(flow[code].vs_category) ELSE None,
         flow_note |-> IF code \in DOMAIN flow THEN flow[code].note ELSE <<"", 0>>,
         momentum_rank |-> IF code \in DOMAIN ranks THEN Some(ranks[code].rank) ELSE None,
         momentum_score |-> IF code \in DOMAIN ranks THEN Some(ranks[code].score) ELSE None]

HasPct1d(f) == Truthy(f.pct_1d)
\* f.get("rsi_14") and f["rsi_14"] <= 35
IsOversold(f) == Truthy(f.rsi_14) /\ Val(f.rsi_14) <= 3500
IsInflow(f) == f.flow_signal = "INFLOW"

FirstN(list, n) == SubSeq(list, 1, Min2(n, Len(list)))

BuildDashboard(indicators, flow, ranks) ==
    LET built == [i \in 1..Len(indicators) |-> DashboardFund(indicators[i], flow, ranks)]
        \* dashboard_funds.sort(key=lambda x: x.get("momentum_rank") or 999)
        dashboard_funds == StableSort(
            [i \in 1..Len(built) |->
                [k |-> IF Truthy(built[i].momentum_rank)
                       THEN Val(built[i].momentum_rank) ELSE 999,
                 v |-> built[i]]], FALSE)
        movers == SelectSeq(dashboard_funds, HasPct1d)
        keyed == [i \in 1..Len(movers) |-> [k |-> Val(movers[i].pct_1d), v |-> movers[i]]]
    IN  [total_funds |-> Len(dashboard_funds),
         funds |-> dashboard_funds,
         top_gainers_1d |-> FirstN(StableSort(keyed, TRUE), 5),
         top_losers_1d |-> FirstN(StableSort(keyed, FALSE), 5),
         top_momentum |-> FirstN(dashboard_funds, 5),
         oversold_funds |-> SelectSeq(dashboard_funds, IsOversold),
         inflow_signals |-> SelectSeq(dashboard_funds, IsInflow)]

\* ---------------------------------------------------------------------
\* The run: run_daily_pipeline.  Holdings (Step 2) are display metadata
\* copied into the dashboard; no computation below reads them and they are
\* left out.
\* ---------------------------------------------------------------------
VARIABLES
    disk,             \* data/nav_history.json
    all_nav_history,  \* the store in memory: fund code -> series
    pc,               \* "loop", "analytics", "dashboard", "done", "aborted"
    idx,              \* position of the fund loop in FUNDS
    response,         \* what the provider did for the fund last fetched
    nav_data,         \* what fetch_nav_from_morningstar returned for it
    all_indicators,   \* the snapshots appended so far
    flow_proxy,
    rankings,
    dashboard,        \* None until Step 4 has built it
    exc               \* the exception that ended the run, "" if none

vars == <<disk, all_nav_history, pc, idx, response, nav_data, all_indicators,
          flow_proxy, rankings, dashboard, exc>>

NoResponse == [kind |-> "none", records |-> <<>>]

\* lines 324-347: the store is loaded from the file (an absent file or an
\* absent key is the empty series)
Start(stored) ==
    /\ disk = stored
    /\ all_nav_history = stored
    /\ pc = "loop"
    /\ idx = 1
    /\ response = NoResponse
    /\ nav_data = <<>>
    /\ all_indicators = <<>>
    /\ flow_proxy = <<>>
    /\ rankings = <<>>
    /\ dashboard = None
    /\ exc = ""

Init == \E stored \in [Codes -> InitSeries] : Start(stored)

InitAnalytics == \E stored \in [Codes -> AnalyticsSeries] : Start(stored)

\* One iteration of the fund loop, lines 349-372: fetch, merge, indicators.
\* An exception of a call that is not caught ends the run.
ProcessFund ==
    /\ pc = "loop"
    /\ \E resp \in Responses :
       \E fetched \in {fetch_nav_from_morningstar(FUNDS[idx], resp)} :
       \E history \in {MergeHistory(all_nav_history, FUNDS[idx].code, fetched.value)} :
       \E computed \in {compute_indicators(FUNDS[idx].code, history[FUNDS[idx].code])} :
            /\ response' = resp
            /\ IF fetched.exc # ""
               THEN /\ exc' = fetched.exc
                    /\ pc' = "aborted"
                    /\ UNCHANGED <<nav_data, all_nav_history, all_indicators, idx>>
               ELSE /\ nav_data' = fetched.value
                    /\ all_nav_history' = history
                    /\ IF computed.exc # ""
                       THEN /\ exc' = computed.exc
                            /\ pc' = "aborted"
                            /\ UNCHANGED <<all_indicators, idx>>
                       ELSE /\ all_indicators' =
                                   IF computed.value = None THEN all_indicators
                                   ELSE Append(all_indicators,
                                               [fund_name |-> FUNDS[idx].name]
                                                   @@ Val(computed.value))
                            /\ idx' = idx + 1
                            /\ pc' = IF idx = Len(FUNDS) THEN "analytics" ELSE "loop"
                            /\ exc' = exc
    /\ UNCHANGED <<disk, flow_proxy, rankings, dashboard>>

\* Step 3, lines 397-398
CrossSection ==
    /\ pc = "analytics"
    /\ flow_proxy' = compute_flow_proxy(all_indicators)
    /\ rankings' = rank_funds(all_indicators)
    /\ pc' = "dashboard"
    /\ UNCHANGED <<disk, all_nav_history, idx, response, nav_data, all_indicators,
                   dashboard, exc>>

\* Steps 4 and 5, lines 403-468: build the dashboard, write the files
AssembleAndSave ==
    /\ pc = "dashboard"
    /\ dashboard' = Some(BuildDashboard(all_indicators, flow_proxy, rankings))
    /\ disk' = all_nav_history
    /\ pc' = "done"
    /\ UNCHANGED <<all_nav_history, idx, response, nav_data, all_indicators,
                   flow_proxy, rankings, exc>>

Next == ProcessFund \/ CrossSection \/ AssembleAndSave

Spec == Init /\ [][Next]_vars

SpecAnalytics == InitAnalytics /\ [][Next]_vars

\* ---------------------------------------------------------------------
\* Properties
\* ---------------------------------------------------------------------
\* a fetch has happened in this run; LastCode is the fund it was for
Fetched == response.kind # "none"
LastCode == FUNDS[IF pc = "aborted" THEN idx ELSE idx - 1].code
Analysed == pc \in {"dashboard", "done"}

Dates(series) == {series[i].date : i \in 1..Len(series)}
Unsorted(batch) ==
    \E i \in 1..(Len(batch) - 1) : batch[i].date > batch[i + 1].date

\* C1: merging the batch just merged into a fund's series a second time
\* changes nothing: merge(merge(S, B), B) = merge(S, B), for every stored
\* series S and every batch B (empty, unsorted, with repeated dates).
MergeIdempotent ==
    Fetched =>
        /\ MergeHistory(all_nav_history, LastCode, nav_data) = all_nav_history
        /\ pc # "done" =>
              LET once == MergeHistory(disk, LastCode, nav_data)
              IN  /\ all_nav_history[LastCode] = once[LastCode]
                  /\ MergeHistory(once, LastCode, nav_data) = once

\* an unsorted batch was merged into a stored series
MergeIdempotentWitness ==
    /\ Fetched /\ pc = "loop"
    /\ Unsorted(nav_data)
    /\ Len(disk[LastCode]) > 0
    /\ all_nav_history[LastCode] # disk[LastCode]

\* C2: after a merge the series holds exactly one observation at each date
\* of the batch, and its value is the value of the last record of the batch
\* with that date (it replaces an earlier record of the batch and the value
\* stored by an earlier run; nothing is summed or averaged).
LastWriteWins ==
    Fetched =>
        LET series == all_nav_history[LastCode]
        IN  \A i \in 1..Len(nav_data) :
                LET D == nav_data[i].date
                    last == CHOOSE j \in 1..Len(nav_data) :
                                /\ nav_data[j].date = D
                                /\ \A k \in (j + 1)..Len(nav_data) : nav_data[k].date # D
                    at == {k \in 1..Len(series) : series[k].date = D}
                IN  /\ Cardinality(at) = 1
                    /\ \A k \in at : series[k].nav = nav_data[last].nav

\* a date stored with one value was fetched twice in one batch with two
\* other values
LastWriteWinsWitness ==
    /\ Fetched /\ pc = "loop"
    /\ \E i, j \in 1..Len(nav_data) :
          /\ i < j
          /\ nav_data[i].date = nav_data[j].date
          /\ nav_data[i].nav # nav_data[j].nav
          /\ \E k \in 1..Len(disk[LastCode]) :
                /\ disk[LastCode][k].date = nav_data[i].date
                /\ disk[LastCode][k].nav \notin {nav_data[i].nav, nav_data[j].nav}

StrictlyIncreasing(series) ==
    \A i \in 1..(Len(series) - 1) : series[i].date < series[i + 1].date

\* C3: every fund's series, in memory and in the file, is strictly
\* increasing by date (so it has no duplicate date) in every state of a run
\* that starts from an empty or strictly increasing store.
SeriesStrictlyIncreasing ==
    \A c \in Codes :
        StrictlyIncreasing(all_nav_history[c]) /\ StrictlyIncreasing(disk[c])

\* an unsorted batch was merged into an empty series
SeriesStrictlyIncreasingWitness ==
    /\ Fetched /\ pc = "loop"
    /\ disk[LastCode] = <<>>
    /\ Unsorted(nav_data)
    /\ Len(all_nav_history[LastCode]) = 2

KeepsDates(old, new) == Dates(old) \subseteq Dates(new)

\* C4: no step removes a stored date from the store in memory or from the
\* file; an iteration of the fund loop leaves the other funds' series and
\* the file alone, keeps every stored observation of its fund whose date is
\* not in the fetched batch, and with an empty or failed fetch leaves the
\* whole store alone and takes the fund's indicators from the stored
\* history (the outcome of compute_indicators on it: a snapshot, nothing, or
\* the exception of C6).
StoreFrame ==
    [][ /\ \A g \in Codes :
              /\ KeepsDates(all_nav_history[g], all_nav_history'[g])
              /\ KeepsDates(disk[g], disk'[g])
        /\ pc = "loop" =>
              LET f == FUNDS[idx].code
                  old == all_nav_history[f]
                  new == all_nav_history'[f]
                  out == compute_indicators(f, old)
              IN  /\ \A g \in Codes \ {f} : all_nav_history'[g] = all_nav_history[g]
                  /\ disk' = disk
                  /\ \A i \in 1..Len(old) :
                        old[i].date \notin Dates(nav_data') =>
                            \E j \in 1..Len(new) : new[j] = old[i]
                  /\ nav_data' = <<>> =>
                        /\ all_nav_history' = all_nav_history
                        /\ IF out.exc # ""
                           THEN pc' = "aborted" /\ all_indicators' = all_indicators
                           ELSE IF out.value = None
                           THEN all_indicators' = all_indicators
                           ELSE all_indicators' =
                                    Append(all_indicators,
                                           [fund_name |-> FUNDS[idx].name]
                                               @@ Val(out.value))
      ]_vars

\* the fetch of the last fund failed, its stored history is untouched and
\* gave a snapshot, and an earlier fund's series has grown
StoreFrameWitness ==
    /\ pc = "analytics"
    /\ response.kind = "error"
    /\ all_nav_history[LastCode] = disk[LastCode]
    /\ Len(disk[LastCode]) > 0
    /\ \E i \in 1..Len(all_indicators) : all_indicators[i].fund_code = LastCode
    /\ \E g \in Codes \ {LastCode} : Len(all_nav_history[g]) > Len(disk[g])

RunNeverAborts == pc # "aborted" /\ exc = ""

\* ----------------------------------------------------------- flow proxy
ValidFunds == SelectSeq(all_indicators, HasPct1m)

\* m is the element at position pos (from 0) of the sorted list of vals
IsSortedElement(vals, m, pos) ==
    /\ \E i \in 1..Len(vals) : vals[i] = m
    /\ Cardinality({i \in 1..Len(vals) : vals[i] < m}) <= pos
    /\ pos < Cardinality({i \in 1..Len(vals) : vals[i] <= m})

\* flow_proxy has an entry for exactly the funds with a 1-month change, and
\* each entry is the fund's change minus the median m, classified at +-1.5
FlowAgainst(m) ==
    /\ DOMAIN flow_proxy = {ValidFunds[i].fund_code : i \in 1..Len(ValidFunds)}
    /\ \A i \in 1..Len(ValidFunds) :
          LET entry == flow_proxy[ValidFunds[i].fund_code]
              delta == Val(ValidFunds[i].pct_1m) - m
          IN  /\ entry.vs_category = delta
              /\ entry.signal = "INFLOW" <=> delta > 150
              /\ entry.signal = "OUTFLOW" <=> delta < -150
              /\ entry.signal = "NEUTRAL" <=> (delta >= -150 /\ delta <= 150)

FlowWithMedianAt(pos) ==
    LET vals == [i \in 1..Len(ValidFunds) |-> Val(ValidFunds[i].pct_1m)]
    IN  IF vals = <<>> THEN flow_proxy = <<>>
        ELSE \E i \in 1..Len(vals) :
                IsSortedElement(vals, vals[i], pos) /\ FlowAgainst(vals[i])

\* C7 as claimed: the flow proxy measures each fund against the lower
\* median of the 1-month changes, the element at position (n - 1) div 2 of
\* the sorted list (for [3, -2] the median -2).
FlowUsesLowerMedian ==
    Analysed => FlowWithMedianAt((Len(ValidFunds) - 1) \div 2)

\* C7 as amended: the flow proxy measures each fund against the element at
\* position n div 2 (from 0) of the sorted 1-month changes, the middle
\* element of an odd-length list and the upper of the two middle elements
\* of an even-length list; delta = change - median, INFLOW iff delta > 1.5,
\* OUTFLOW iff delta < -1.5, else NEUTRAL.
FlowUsesUpperMedian ==
    Analysed => FlowWithMedianAt(Len(ValidFunds) \div 2)

\* the 1-month changes are 3 and -2: the fund with 3 is NEUTRAL (delta 0)
\* and the fund with -2 is OUTFLOW (delta -5)
FlowUsesUpperMedianWitness ==
    /\ Analysed
    /\ Len(ValidFunds) = 2
    /\ \E i, j \in 1..2 :
          /\ Val(ValidFunds[i].pct_1m) = 300
          /\ Val(ValidFunds[j].pct_1m) = -200
          /\ flow_proxy[ValidFunds[i].fund_code].signal = "NEUTRAL"
          /\ flow_proxy[ValidFunds[j].fund_code].signal = "OUTFLOW"
          /\ flow_proxy[ValidFunds[j].fund_code].vs_category = -500

\* -------------------------------------------------------------- ranking
RankOf(i) == rankings[all_indicators[i].fund_code].rank
ScoreOf(i) == rankings[all_indicators[i].fund_code].score

\* C8: the N scored funds get the ranks 1..N, each once; a strictly higher
\* score gets a strictly smaller rank, equal scores are ranked in input
\* order, and ranking the same input again gives the same ranks.
RankingDenseStable ==
    Analysed =>
        LET n == Len(all_indicators)
        IN  /\ DOMAIN rankings = {all_indicators[i].fund_code : i \in 1..n}
            /\ {RankOf(i) : i \in 1..n} = 1..n
            /\ \A i, j \in 1..n : i # j => RankOf(i) # RankOf(j)
            /\ \A i \in 1..n : ScoreOf(i) = MomentumScore(all_indicators[i])
            /\ \A i, j \in 1..n :
                  /\ ScoreOf(i) > ScoreOf(j) => RankOf(i) < RankOf(j)
                  /\ (i < j /\ ScoreOf(i) = ScoreOf(j)) => RankOf(i) < RankOf(j)
            /\ rank_funds(all_indicators) = rankings

\* three funds are ranked, two of them with the same score and one with a
\* higher score that comes later in the input
RankingDenseStableWitness ==
    /\ Analysed
    /\ Len(all_indicators) = 3
    /\ \E i, j, k \in 1..3 :
          /\ i < j /\ ScoreOf(i) = ScoreOf(j)
          /\ k > i /\ ScoreOf(k) > ScoreOf(i)

\* --------------------------------------------------------- exclusion
\* C9 as claimed: a fund whose snapshot has no 1-month change gets no entry
\* in the flow proxy and no entry in the ranking.
NoPct1mExcludedFromBoth ==
    Analysed =>
        \A i \in 1..Len(all_indicators) :
            all_indicators[i].pct_1m = None =>
                /\ all_indicators[i].fund_code \notin DOMAIN flow_proxy
                /\ all_indicators[i].fund_code \notin DOMAIN rankings

\* C9 as amended: a fund whose snapshot has no 1-month change gets no entry
\* in the flow proxy (its dashboard flow signal is N/A), but it is ranked:
\* it has a momentum rank and a score, to which the missing 1-month change
\* contributes 0.
NoPct1mExcludedFromFlowOnly ==
    /\ Analysed =>
          \A i \in 1..Len(all_indicators) :
              LET f == all_indicators[i]
              IN  f.pct_1m = None =>
                      /\ f.fund_code \notin DOMAIN flow_proxy
                      /\ f.fund_code \in DOMAIN rankings
                      /\ rankings[f.fund_code].rank \in 1..Len(all_indicators)
                      /\ rankings[f.fund_code].score =
                              (IF Truthy(f.pct_1w) THEN 40 * Val(f.pct_1w) ELSE 0)
                            + (IF Truthy(f.rsi_14) THEN 8 * (Val(f.rsi_14) - 5000) ELSE 0)
    /\ pc = "done" =>
          \A i \in 1..Len(Val(dashboard).funds) :
              LET d == Val(dashboard).funds[i]
              IN  d.pct_1m = None =>
                      /\ d.flow_signal = "N/A"
                      /\ d.flow_vs_category = None
                      /\ d.momentum_rank # None
                      /\ d.momentum_score # None

\* the dashboard holds a fund with fewer than 22 observations, a fund with
\* 22 observations and a zero base value, and a fund with a 1-month change
NoPct1mExcludedFromFlowOnlyWitness ==
    /\ pc = "done"
    /\ \E i, j, k \in 1..Len(all_indicators) :
          /\ all_indicators[i].pct_1m = None /\ all_indicators[i].data_points < 22
          /\ all_indicators[j].pct_1m = None /\ all_indicators[j].data_points >= 22
          /\ all_indicators[k].pct_1m # None

\* ------------------------------------------------------------ oversold
RsiAtMost35(f) == f.rsi_14 # None /\ Val(f.rsi_14) <= 3500

\* C10: oversold_funds is exactly the list of the dashboard funds whose
\* rsi_14 is defined and at most 35, an RSI of exactly 0 included.
OversoldIsRsiAtMost35 ==
    pc = "done" =>
        Val(dashboard).oversold_funds = SelectSeq(Val(dashboard).funds, RsiAtMost35)

\* ----------------------------------------------------------------- RSI
\* the prices behind the i-th snapshot: its fund's series, oldest first
PricesOf(i) ==
    LET series == all_nav_history[all_indicators[i].fund_code]
    IN  [k \in 1..Len(series) |-> series[k].nav]

NonDecreasing(prices) ==
    \A k \in 1..(Len(prices) - 1) : prices[k] <= prices[k + 1]

HasRise(prices) ==
    \E k \in 1..(Len(prices) - 1) : prices[k] < prices[k + 1]

\* C11: the rsi_14 of a snapshot is absent exactly when its series has
\* fewer than 15 values; for a non-decreasing series of at least 15 values
\* with a strictly positive delta it is exactly 100.0; and whenever it is
\* defined it lies in [0, 100].
RsiAbsentHundredRange ==
    \A i \in 1..Len(all_indicators) :
        LET rsi == all_indicators[i].rsi_14
            prices == PricesOf(i)
        IN  /\ all_indicators[i].data_points = Len(prices)
            /\ rsi = None <=> Len(prices) < 15
            /\ (Len(prices) >= 15 /\ NonDecreasing(prices) /\ HasRise(prices))
                  => rsi = Some(10000)
            /\ rsi # None => (Val(rsi) >= 0 /\ Val(rsi) <= 10000)

\* one run holds a snapshot of 14 values without RSI, one of exactly 15
\* values with an RSI strictly between 0 and 100, and one of a
\* non-decreasing series with a rise whose RSI is 100
RsiAbsentHundredRangeWitness ==
    \E i, j, k \in 1..Len(all_indicators) :
        /\ Len(PricesOf(i)) = 14 /\ all_indicators[i].rsi_14 = None
        /\ Len(PricesOf(j)) = 15
        /\ all_indicators[j].rsi_14 # None
        /\ Val(all_indicators[j].rsi_14) > 0
        /\ Val(all_indicators[j].rsi_14) < 10000
        /\ Len(PricesOf(k)) >= 15
        /\ NonDecreasing(PricesOf(k)) /\ HasRise(PricesOf(k))
        /\ all_indicators[k].rsi_14 = Some(10000)

====
